---- MODULE Spec2Model ----
(***************************************************************************)
(* Model of the memo repository src/src/utils/supabaseUtils.ts             *)
(* (supabaseUtils) together with the `memos` table it queries.             *)
(*                                                                         *)
(* Encoding.  A JavaScript string is a sequence of one-character strings,  *)
(* so that toLowerCase, includes and ILIKE can be computed.  A nullable    *)
(* value is a sequence of length 0 (null) or 1 (the value).  The result    *)
(* of an operation is a sequence of memos: Memo[] for the list operations, *)
(* a sequence of length 0 or 1 for `Memo | null` and empty for void.       *)
(***************************************************************************)
EXTENDS Integers, Sequences, FiniteSets, TLC

\* ------------------------------------------------------------------ bounds
MaxIds == 2
MaxTime == 1
MaxClients == 2
MaxPending == 2

\* --------------------------------------------------------------- nullables
Null == <<>>
Some(x) == <<x>>

\* ----------------------------------------------------------------- strings
\* String.prototype.toLowerCase on one character of the alphabet in use.
LowerChar(c) ==
  IF c = "A" THEN "a" ELSE IF c = "B" THEN "b" ELSE IF c = "C" THEN "c" ELSE c

ToLowerCase(s) == [i \in 1..Len(s) |-> LowerChar(s[i])]

\* String.prototype.includes: sub occurs in s as a contiguous substring.
Includes(s, sub) ==
  \E i \in 0..(Len(s) - Len(sub)) :
    \A j \in 1..Len(sub) : s[i + j] = sub[j]

\* searchTerm = `%${query.toLowerCase()}%`
SearchTerm(query) == <<"%">> \o ToLowerCase(query) \o <<"%">>

\* The argument of .or(): `title.ilike.${searchTerm},content.ilike.${searchTerm}`.
\* The column and operator names are single symbols of the filter string.
OrFilterString(searchTerm) ==
  <<"title", ".", "ilike", ".">> \o searchTerm \o
  <<",", "content", ".", "ilike", ".">> \o searchTerm

\* ------------------------------------------------------------- memos table
\* The store's answer { data, error }: data is null or the selected rows.
NoError == [code |-> ""]
StoreError(c) == [code |-> c]
Response(d, e) == [data |-> d, error |-> e]

\* Failures the store can report for any request (connection failure,
\* insufficient privilege).
NoFault == ""
Faults == {"08006", "42501"}

\* A filter list is split at every comma that it contains.
RECURSIVE SplitOnComma(_, _, _)
SplitOnComma(s, i, piece) ==
  IF i > Len(s) THEN <<piece>>
  ELSE IF s[i] = "," THEN <<piece>> \o SplitOnComma(s, i + 1, <<>>)
  ELSE SplitOnComma(s, i + 1, Append(piece, s[i]))

\* One element of the list must read <column>.ilike.<pattern>.
WellFormedCondition(piece) ==
  /\ Len(piece) >= 4
  /\ piece[1] \in {"title", "content"}
  /\ piece[2] = "."
  /\ piece[3] = "ilike"
  /\ piece[4] = "."

\* ILIKE: % matches any run of characters, _ exactly one character, every
\* other character itself, ignoring case.
RECURSIVE IlikeMatch(_, _)
IlikeMatch(pattern, s) ==
  IF pattern = <<>> THEN s = <<>>
  ELSE IF Head(pattern) = "%"
    THEN \/ IlikeMatch(Tail(pattern), s)
         \/ s # <<>> /\ IlikeMatch(pattern, Tail(s))
  ELSE IF Head(pattern) = "_"
    THEN s # <<>> /\ IlikeMatch(Tail(pattern), Tail(s))
  ELSE /\ s # <<>>
       /\ LowerChar(Head(s)) = LowerChar(Head(pattern))
       /\ IlikeMatch(Tail(pattern), Tail(s))

ConditionHolds(piece, row) ==
  IlikeMatch(SubSeq(piece, 5, Len(piece)),
             IF piece[1] = "title" THEN row.title ELSE row.content)

\* ORDER BY created_at DESC: null keys sort first, rows with equal keys keep
\* their table order.
KeyGreater(a, b) ==
  \/ a = Null /\ b # Null
  \/ a # Null /\ b # Null /\ a[1] > b[1]

RECURSIVE InsertByCreatedAtDesc(_, _)
InsertByCreatedAtDesc(sorted, row) ==
  IF sorted = <<>> THEN <<row>>
  ELSE IF KeyGreater(row.created_at, Head(sorted).created_at)
    THEN <<row>> \o sorted
  ELSE <<Head(sorted)>> \o InsertByCreatedAtDesc(Tail(sorted), row)

RECURSIVE OrderByCreatedAtDesc(_)
OrderByCreatedAtDesc(rows) ==
  IF rows = <<>> THEN <<>>
  ELSE InsertByCreatedAtDesc(OrderByCreatedAtDesc(SubSeq(rows, 1, Len(rows) - 1)),
                             rows[Len(rows)])

RECURSIVE FilterRows(_, _)
FilterRows(rows, keep) ==
  IF rows = <<>> THEN <<>>
  ELSE (IF Head(rows).id \in keep THEN <<Head(rows)>> ELSE <<>>)
       \o FilterRows(Tail(rows), keep)

RowIds(rows) == {rows[i].id : i \in 1..Len(rows)}

\* .single(): exactly one row, otherwise error PGRST116.
Single(rows) ==
  IF Len(rows) = 1 THEN Response(Some(rows[1]), NoError)
  ELSE Response(Null, StoreError("PGRST116"))

\* from('memos').select('*').order('created_at', { ascending: false })
StoreSelectAll(tbl) ==
  Response(Some(OrderByCreatedAtDesc(tbl)), NoError)

\* Variant of the category query without the order clause.
StoreSelectByCategoryUnordered(tbl, category) ==
  Response(
    Some(FilterRows(tbl, {tbl[i].id : i \in {j \in 1..Len(tbl) : tbl[j].category = category}})),
    NoError)

\* from('memos').select('*').eq('category', category).order(...)
StoreSelectByCategory(tbl, category) ==
  Response(
    Some(OrderByCreatedAtDesc(
      FilterRows(tbl, {tbl[i].id : i \in {j \in 1..Len(tbl) : tbl[j].category = category}}))),
    NoError)

\* from('memos').select('*').eq('id', id).single()
StoreSelectById(tbl, id) ==
  Single(FilterRows(tbl, {id} \cap RowIds(tbl)))

\* from('memos').select('*').or(filter).order(...): a filter list with an
\* element that is not a condition is rejected (PGRST100).
StoreSelectOr(tbl, filter) ==
  LET pieces == SplitOnComma(filter, 1, <<>>) IN
  IF \E k \in 1..Len(pieces) : ~WellFormedCondition(pieces[k])
  THEN Response(Null, StoreError("PGRST100"))
  ELSE Response(
         Some(OrderByCreatedAtDesc(
           FilterRows(tbl,
             {tbl[i].id : i \in {j \in 1..Len(tbl) :
                \E k \in 1..Len(pieces) : ConditionHolds(pieces[k], tbl[j])}}))),
         NoError)

\* Column defaults of the memos table: the store assigns the id and both
\* timestamps of an inserted row.
StoreDefaults(id, t) ==
  [id |-> id, created_at |-> Some(t), updated_at |-> Some(t)]

\* The store refreshes updated_at of an updated row; created_at is untouched.
StoreRefreshUpdatedAt(row, t) == [row EXCEPT !.updated_at = Some(t)]

\* insert(memoData): the new row, appended to the table.
InsertedRow(memoData, id, t) ==
  LET d == StoreDefaults(id, t) IN
  [id |-> d.id, title |-> memoData.title, content |-> memoData.content,
   category |-> memoData.category, tags |-> Some(memoData.tags),
   created_at |-> d.created_at, updated_at |-> d.updated_at]

\* Variant of the update that writes title, category and tags only.
UpdatedTableKeepingContent(tbl, id, updateData, t) ==
  [i \in 1..Len(tbl) |->
     IF tbl[i].id = id
     THEN StoreRefreshUpdatedAt(
            [tbl[i] EXCEPT !.title = updateData.title,
                           !.category = updateData.category,
                           !.tags = Some(updateData.tags)], t)
     ELSE tbl[i]]

\* Variant of the update that inserts the row when no row has the id.
UpdatedTableOrInserted(tbl, id, updateData, t) ==
  IF id \in RowIds(tbl)
  THEN [i \in 1..Len(tbl) |->
          IF tbl[i].id = id
          THEN StoreRefreshUpdatedAt(
                 [tbl[i] EXCEPT !.title = updateData.title,
                                !.content = updateData.content,
                                !.category = updateData.category,
                                !.tags = Some(updateData.tags)], t)
          ELSE tbl[i]]
  ELSE Append(tbl, InsertedRow(updateData, id, t))

\* update(updateData).eq('id', id): the table after the update.
UpdatedTable(tbl, id, updateData, t) ==
  [i \in 1..Len(tbl) |->
     IF tbl[i].id = id
     THEN StoreRefreshUpdatedAt(
            [tbl[i] EXCEPT !.title = updateData.title,
                           !.content = updateData.content,
                           !.category = updateData.category,
                           !.tags = Some(updateData.tags)], t)
     ELSE tbl[i]]

\* Variant of the delete with neq in place of eq.
DeletedByOtherId(tbl, id) == FilterRows(tbl, RowIds(tbl) \cap {id})

\* delete().eq('id', id): the table without the rows whose id equals id.
DeletedById(tbl, id) == FilterRows(tbl, RowIds(tbl) \ {id})

\* Variant of the clearing delete with eq in place of neq.
DeletedEqEmptyId(tbl) ==
  FilterRows(tbl, {tbl[i].id : i \in {j \in 1..Len(tbl) : ~(tbl[j].id = "")}})

\* delete().neq('id', ''): the table without the rows whose id differs from ''.
DeletedNeqEmptyId(tbl) ==
  FilterRows(tbl, {tbl[i].id : i \in {j \in 1..Len(tbl) : ~(tbl[j].id # "")}})

\* ------------------------------------------------------------------ inputs
IdNames == <<"m1", "m2", "m3", "m4", "m5", "m6">>
Ids == {IdNames[i] : i \in 1..MaxIds}
Categories == {"work", "idea"}

FormDatas ==
  { [title |-> <<"c">>, content |-> <<"b">>, category |-> "idea",
     tags |-> <<>>],
    [title |-> <<"a", ",", "b">>, content |-> <<>>, category |-> "work",
     tags |-> << <<"c">>, <<"A", "b">> >>] }

Queries == { <<"a">>, <<"C">>, <<"_">>, <<"a", ",", "b">> }

\* Rows already in the table when the program starts; a row written by
\* another writer may carry null tags and timestamps (MemoRow allows them).
SeedNull(id) ==
  [id |-> id, title |-> <<"A", "b">>, content |-> <<>>, category |-> "work",
   tags |-> Null, created_at |-> Null, updated_at |-> Null]

SeedFull(id) ==
  [id |-> id, title |-> <<"c">>, content |-> <<"b">>, category |-> "idea",
   tags |-> Some(<< <<"A">> >>), created_at |-> Some(0), updated_at |-> Some(0)]

SeedTables ==
  { <<>>,
    <<SeedNull("m1")>>,
    <<SeedNull("m1"), SeedNull("m2")>>,
    <<SeedFull("m1"), SeedNull("m2")>> }

\* ---------------------------------------------------------- the repository
VARIABLES
  table,       \* rows of the memos table, in insertion order
  nextId,      \* index of the next id the store assigns
  now,         \* the clock
  last,        \* the last repository call: arguments and outcome
  requests,    \* store requests issued by the call recorded in last
  deleted,     \* ids deleted successfully since the last addMemo call
  cleared,     \* clearAllMemos succeeded and no addMemo was called since
  createdIds,  \* ids of the rows inserted by addMemo
  updates,     \* concurrent updateMemo calls, one per client
  applied,     \* clients in the order in which the store applied their update
  home,        \* useState values of Home
  pending,     \* promises of createMemo / updateMemo / deleteMemo not yet settled
  doc,         \* document: keydown listeners and body.style.overflow
  effect,      \* handler registered by the last run of the viewer's effect
  mounted,     \* Home (and its MemoDetailViewer) is mounted
  event        \* the last event Home handled

repoVars == <<table, nextId, now, last, requests, deleted, cleared, createdIds>>
concVars == <<updates, applied>>
uiVars == <<home, pending, doc, effect, mounted, event>>
vars == <<repoVars, concVars, uiVars>>

NoForm == [title |-> <<>>, content |-> <<>>, category |-> "", tags |-> <<>>]

Call(op, id, query, category, formData, fault, outcome, error, ret) ==
  [op |-> op, id |-> id, query |-> query, category |-> category,
   formData |-> formData, fault |-> fault, outcome |-> outcome,
   error |-> error, ret |-> ret]

\* No call is awaiting its caller.
NoCall == Call("none", "", <<>>, "", NoForm, NoFault, "none", NoError, <<>>)

\* new Date() read number j of a call, when the clock advances after the
\* first k reads of the call.
ClockRead(k, j) ==
  IF j <= k \/ now >= MaxTime THEN now ELSE now + 1


\* Variant of the normalization that always returns empty tags.
NormalizeWithoutTags(memo, dateC, dateU) ==
  [id |-> memo.id, title |-> memo.title, content |-> memo.content,
   category |-> memo.category,
   tags |-> <<>>,
   created_at |-> IF memo.created_at = Null THEN dateC ELSE memo.created_at[1],
   updated_at |-> IF memo.updated_at = Null THEN dateU ELSE memo.updated_at[1]]

\* { ...memo, tags: memo.tags || [], created_at: memo.created_at || new Date()...,
\*   updated_at: memo.updated_at || new Date()... }
Normalize(memo, dateC, dateU) ==
  [id |-> memo.id, title |-> memo.title, content |-> memo.content,
   category |-> memo.category,
   tags |-> IF memo.tags = Null THEN <<>> ELSE memo.tags[1],
   created_at |-> IF memo.created_at = Null THEN dateC ELSE memo.created_at[1],
   updated_at |-> IF memo.updated_at = Null THEN dateU ELSE memo.updated_at[1]]

\* Number of clock reads made while normalizing rows 1..n of data: one for
\* every null created_at and one for every null updated_at.
ClockReads(data, n) ==
  Cardinality({i \in 1..n : data[i].created_at = Null})
  + Cardinality({i \in 1..n : data[i].updated_at = Null})

\* data.map(memo => ({ ... })): the rows are normalized in order, each null
\* timestamp reading the clock for itself.
NormalizeAll(data, k) ==
  [i \in 1..Len(data) |->
     LET before == ClockReads(data, i - 1)
         readC == before + 1
         readU == before + (IF data[i].created_at = Null THEN 2 ELSE 1)
     IN Normalize(data[i], ClockRead(k, readC), ClockRead(k, readU))]

\* data || []
OrEmpty(data) == IF data = Null THEN <<>> ELSE data[1]

\* The store's answer to a request, or the failure it reports instead.
Answer(fault, resp) ==
  IF fault # NoFault THEN Response(Null, StoreError(fault)) ELSE resp

\* Variant of the rethrow that replaces the store's error by a new Error.
ThrownAsNewError(error) == StoreError("Error")

\* console.error(...); throw error, rethrown by the catch block unchanged.
Thrown(error) == error

\* Variant with a second query for the tag search.
StoreRequestsWithTagQuery(op) == IF op = "searchMemos" THEN 2 ELSE 1

\* Each operation awaits one supabase.from('memos') query chain.
StoreRequests(op) == 1

Clients == 1..MaxClients

\* An event Home handled, and the call it concerns.
Event(kind, call) == [kind |-> kind, call |-> call]

\* A client that has no updateMemo call in flight.
IdleUpdate ==
  [state |-> "idle", id |-> "", formData |-> NoForm,
   resp |-> Response(Null, NoError), outcome |-> "none", ret |-> <<>>]

\* useState(false), useState(null), useState(null), useState(false)
HomeInitial ==
  [isFormOpen |-> FALSE, editingMemo |-> Null, viewingMemo |-> Null,
   isDetailViewerOpen |-> FALSE]

\* The document before the viewer's effect ran.
DocInitial == [listeners |-> {}, overflow |-> ""]

Init ==
  /\ table \in SeedTables
  /\ nextId = Len(table) + 1
  /\ now = 0
  /\ last = NoCall
  /\ deleted = {}
  /\ cleared = FALSE
  /\ createdIds = {}
  /\ requests = 0
  /\ updates = [c \in Clients |-> IdleUpdate]
  /\ applied = <<>>
  /\ home = HomeInitial
  /\ pending = <<>>
  /\ doc = DocInitial
  /\ effect = 0
  /\ mounted = TRUE
  /\ event = Event("mount", "")

getMemos ==
  \E fault \in {NoFault} \cup Faults :
    LET resp == Answer(fault, StoreSelectAll(table))
        rows == OrEmpty(resp.data)
    IN
    /\ last = NoCall
    /\ requests' = StoreRequests("getMemos")
    /\ UNCHANGED <<concVars, uiVars>>
    /\ IF resp.error # NoError
       THEN /\ last' = Call("getMemos", "", <<>>, "", NoForm, fault,
                            "threw", Thrown(resp.error), <<>>)
            /\ UNCHANGED now
       ELSE \E k \in 0..ClockReads(rows, Len(rows)) :
              /\ last' = Call("getMemos", "", <<>>, "", NoForm, fault,
                              "returned", NoError, NormalizeAll(rows, k))
              /\ now' = ClockRead(k, ClockReads(rows, Len(rows)))
    /\ UNCHANGED <<table, nextId, deleted, cleared, createdIds>>

\* Variants of the payloads: tags dropped, title and content exchanged.
MemoDataWithoutTags(formData) ==
  [title |-> formData.title, content |-> formData.content,
   category |-> formData.category, tags |-> <<>>]

UpdateDataExchanged(formData) ==
  [title |-> formData.content, content |-> formData.title,
   category |-> formData.category,
   tags |-> IF Len(formData.tags) > 0 THEN formData.tags ELSE <<>>]

\* memoData / updateData: { title, content, category,
\*   tags: formData.tags.length > 0 ? formData.tags : [] }
MemoData(formData) ==
  [title |-> formData.title, content |-> formData.content,
   category |-> formData.category,
   tags |-> IF Len(formData.tags) > 0 THEN formData.tags ELSE <<>>]

UpdateData(formData) ==
  [title |-> formData.title, content |-> formData.content,
   category |-> formData.category,
   tags |-> IF Len(formData.tags) > 0 THEN formData.tags ELSE <<>>]

addMemo ==
  \E formData \in FormDatas, fault \in {NoFault} \cup Faults :
    LET row == InsertedRow(MemoData(formData), IdNames[nextId], now)
        resp == Answer(fault, Single(<<row>>))
    IN
    /\ last = NoCall
    /\ requests' = StoreRequests("addMemo")
    /\ UNCHANGED <<concVars, uiVars>>
    /\ nextId <= MaxIds
    /\ IF resp.error # NoError
       THEN /\ last' = Call("addMemo", "", <<>>, "", formData, fault,
                            "threw", Thrown(resp.error), <<>>)
            /\ UNCHANGED now
       ELSE IF resp.data = Null
       THEN /\ last' = Call("addMemo", "", <<>>, "", formData, fault,
                            "threw", StoreError("Error"), <<>>)
            /\ UNCHANGED now
       ELSE \E k \in 0..ClockReads(resp.data, 1) :
              /\ last' = Call("addMemo", "", <<>>, "", formData, fault,
                              "returned", NoError,
                              NormalizeAll(resp.data, k))
              /\ now' = ClockRead(k, ClockReads(resp.data, 1))
    /\ IF fault = NoFault
       THEN /\ table' = Append(table, row)
            /\ nextId' = nextId + 1
            /\ createdIds' = createdIds \cup {row.id}
       ELSE UNCHANGED <<table, nextId, createdIds>>
    /\ deleted' = {}
    /\ cleared' = FALSE

updateMemo ==
  \E id \in Ids, formData \in FormDatas, fault \in {NoFault} \cup Faults :
    LET after == UpdatedTable(table, id, UpdateData(formData), now)
        resp == Answer(fault, Single(FilterRows(after, {id} \cap RowIds(after))))
    IN
    /\ last = NoCall
    /\ requests' = StoreRequests("updateMemo")
    /\ UNCHANGED <<concVars, uiVars>>
    /\ IF resp.error # NoError
       THEN /\ last' = Call("updateMemo", id, <<>>, "", formData, fault,
                            "threw", Thrown(resp.error), <<>>)
            /\ UNCHANGED now
       ELSE IF resp.data = Null
       THEN /\ last' = Call("updateMemo", id, <<>>, "", formData, fault,
                            "threw", StoreError("Error"), <<>>)
            /\ UNCHANGED now
       ELSE \E k \in 0..ClockReads(resp.data, 1) :
              /\ last' = Call("updateMemo", id, <<>>, "", formData, fault,
                              "returned", NoError,
                              NormalizeAll(resp.data, k))
              /\ now' = ClockRead(k, ClockReads(resp.data, 1))
    /\ table' = IF fault = NoFault THEN after ELSE table
    /\ UNCHANGED <<nextId, deleted, cleared, createdIds>>

deleteMemo ==
  \E id \in Ids, fault \in {NoFault} \cup Faults :
    LET resp == Answer(fault, Response(Null, NoError)) IN
    /\ last = NoCall
    /\ requests' = StoreRequests("deleteMemo")
    /\ UNCHANGED <<concVars, uiVars>>
    /\ IF resp.error # NoError
       THEN /\ last' = Call("deleteMemo", id, <<>>, "", NoForm, fault,
                            "threw", Thrown(resp.error), <<>>)
            /\ UNCHANGED <<table, deleted>>
       ELSE /\ last' = Call("deleteMemo", id, <<>>, "", NoForm, fault,
                            "returned", NoError, <<>>)
            /\ table' = DeletedById(table, id)
            /\ deleted' = deleted \cup {id}
    /\ UNCHANGED now
    /\ UNCHANGED <<nextId, cleared, createdIds>>

\* Variants of the no-row test: another error code, and every error.
IsNoRowOtherCode(error) == error.code = "PGRST106"
IsNoRowAnyError(error) == TRUE

\* error.code === 'PGRST116'
IsNoRow(error) == error.code = "PGRST116"

getMemoById ==
  \E id \in Ids, fault \in {NoFault} \cup Faults :
    LET resp == Answer(fault, StoreSelectById(table, id)) IN
    /\ last = NoCall
    /\ requests' = StoreRequests("getMemoById")
    /\ UNCHANGED <<concVars, uiVars>>
    /\ IF resp.error # NoError
       THEN IF IsNoRow(resp.error)
            THEN /\ last' = Call("getMemoById", id, <<>>, "", NoForm, fault,
                                 "returned", NoError, <<>>)
                 /\ UNCHANGED now
            ELSE /\ last' = Call("getMemoById", id, <<>>, "", NoForm, fault,
                                 "threw", Thrown(resp.error), <<>>)
                 /\ UNCHANGED now
       ELSE IF resp.data # Null
       THEN \E k \in 0..ClockReads(resp.data, 1) :
              /\ last' = Call("getMemoById", id, <<>>, "", NoForm, fault,
                              "returned", NoError,
                              NormalizeAll(resp.data, k))
              /\ now' = ClockRead(k, ClockReads(resp.data, 1))
       ELSE /\ last' = Call("getMemoById", id, <<>>, "", NoForm, fault,
                            "returned", NoError, <<>>)
            /\ UNCHANGED now
    /\ UNCHANGED <<table, nextId, deleted, cleared, createdIds>>

getMemosByCategory ==
  \E category \in Categories, fault \in {NoFault} \cup Faults :
    LET resp == Answer(fault, StoreSelectByCategory(table, category))
        rows == OrEmpty(resp.data)
    IN
    /\ last = NoCall
    /\ requests' = StoreRequests("getMemosByCategory")
    /\ UNCHANGED <<concVars, uiVars>>
    /\ IF resp.error # NoError
       THEN /\ last' = Call("getMemosByCategory", "", <<>>, category, NoForm,
                            fault, "threw", Thrown(resp.error), <<>>)
            /\ UNCHANGED now
       ELSE \E k \in 0..ClockReads(rows, Len(rows)) :
              /\ last' = Call("getMemosByCategory", "", <<>>, category, NoForm,
                              fault, "returned", NoError, NormalizeAll(rows, k))
              /\ now' = ClockRead(k, ClockReads(rows, Len(rows)))
    /\ UNCHANGED <<table, nextId, deleted, cleared, createdIds>>

\* Variant of TagFilter that filters every row of the table.
TagFilterOverTable(data, query) ==
  IF data = Null THEN <<>>
  ELSE FilterRows(table,
         {table[i].id : i \in {j \in 1..Len(table) :
            /\ table[j].tags # Null
            /\ \E n \in 1..Len(table[j].tags[1]) :
                 Includes(ToLowerCase(table[j].tags[1][n]), ToLowerCase(query))}})

\* data?.filter(memo => memo.tags?.some(tag =>
\*   tag.toLowerCase().includes(query.toLowerCase()))) || []
TagFilter(data, query) ==
  IF data = Null THEN <<>>
  ELSE FilterRows(data[1],
         {data[1][i].id : i \in {j \in 1..Len(data[1]) :
            /\ data[1][j].tags # Null
            /\ \E n \in 1..Len(data[1][j].tags[1]) :
                 Includes(ToLowerCase(data[1][j].tags[1][n]), ToLowerCase(query))}})

\* self.findIndex(m => m.id === id): the first index holding id.
FindIndex(self, id) ==
  CHOOSE i \in 1..Len(self) :
    /\ self[i].id = id
    /\ \A j \in 1..(i - 1) : self[j].id # id

RECURSIVE KeepFirstFrom(_, _)
KeepFirstFrom(self, index) ==
  IF index > Len(self) THEN <<>>
  ELSE (IF index = FindIndex(self, self[index].id) THEN <<self[index]>> ELSE <<>>)
       \o KeepFirstFrom(self, index + 1)

\* Variant of UniqueData without the findIndex filter.
UniqueDataWithoutFilter(data, filteredData) ==
  IF data = Null THEN <<>> ELSE data[1] \o filteredData

\* data?.concat(filteredData).filter((memo, index, self) =>
\*   index === self.findIndex(m => m.id === memo.id)) || []
UniqueData(data, filteredData) ==
  IF data = Null THEN <<>>
  ELSE KeepFirstFrom(data[1] \o filteredData, 1)

searchMemos ==
  \E query \in Queries, fault \in {NoFault} \cup Faults :
    LET searchTerm == SearchTerm(query)
        resp == Answer(fault, StoreSelectOr(table, OrFilterString(searchTerm)))
        filteredData == TagFilter(resp.data, query)
        uniqueData == UniqueData(resp.data, filteredData)
    IN
    /\ last = NoCall
    /\ requests' = StoreRequests("searchMemos")
    /\ UNCHANGED <<concVars, uiVars>>
    /\ IF resp.error # NoError
       THEN /\ last' = Call("searchMemos", "", query, "", NoForm, fault,
                            "threw", Thrown(resp.error), <<>>)
            /\ UNCHANGED now
       ELSE \E k \in 0..ClockReads(uniqueData, Len(uniqueData)) :
              /\ last' = Call("searchMemos", "", query, "", NoForm, fault,
                              "returned", NoError, NormalizeAll(uniqueData, k))
              /\ now' = ClockRead(k, ClockReads(uniqueData, Len(uniqueData)))
    /\ UNCHANGED <<table, nextId, deleted, cleared, createdIds>>

clearAllMemos ==
  \E fault \in {NoFault} \cup Faults :
    LET resp == Answer(fault, Response(Null, NoError)) IN
    /\ last = NoCall
    /\ requests' = StoreRequests("clearAllMemos")
    /\ UNCHANGED <<concVars, uiVars>>
    /\ IF resp.error # NoError
       THEN /\ last' = Call("clearAllMemos", "", <<>>, "", NoForm, fault,
                            "threw", Thrown(resp.error), <<>>)
            /\ UNCHANGED <<table, cleared>>
       ELSE /\ last' = Call("clearAllMemos", "", <<>>, "", NoForm, fault,
                            "returned", NoError, <<>>)
            /\ table' = DeletedNeqEmptyId(table)
            /\ cleared' = TRUE
    /\ UNCHANGED now
    /\ UNCHANGED <<nextId, deleted, createdIds>>

\* The clock advances between two calls.
Tick ==
  /\ last = NoCall
  /\ now < MaxTime
  /\ now' = now + 1
  /\ UNCHANGED <<table, nextId, last, requests, deleted, cleared, createdIds>>
  /\ UNCHANGED <<concVars, uiVars>>

\* The awaiting caller takes the outcome of the call; the next call follows.
Settle ==
  /\ last # NoCall
  /\ last' = NoCall
  /\ requests' = 0
  /\ UNCHANGED <<table, nextId, now, deleted, cleared, createdIds>>
  /\ UNCHANGED <<concVars, uiVars>>

Next ==
  \/ getMemos
  \/ addMemo
  \/ updateMemo
  \/ deleteMemo
  \/ getMemoById
  \/ getMemosByCategory
  \/ searchMemos
  \/ clearAllMemos
  \/ Tick
  \/ Settle

Spec == Init /\ [][Next]_vars

\* ------------------------------------------------- concurrent updateMemo
\* updateMemo(id, formData) of client c, up to the request: updateData is
\* built and the update request is on its way to the store.
updateMemoSend(c) ==
  \E id \in Ids, formData \in FormDatas :
    /\ updates[c].state = "idle"
    /\ updates' = [updates EXCEPT ![c] =
                     [IdleUpdate EXCEPT !.state = "sent", !.id = id,
                                        !.formData = formData]]
    /\ UNCHANGED <<applied, repoVars, uiVars>>

\* The store serves the request of client c: the update statement writes
\* the row in one step and selects it for the response.
updateMemoServe(c) ==
  \E fault \in {NoFault} \cup Faults :
    LET u == updates[c]
        after == UpdatedTable(table, u.id, UpdateData(u.formData), now)
        resp == Answer(fault, Single(FilterRows(after, {u.id} \cap RowIds(after))))
    IN
    /\ u.state = "sent"
    /\ table' = IF fault = NoFault THEN after ELSE table
    /\ applied' = IF fault = NoFault /\ u.id \in RowIds(table)
                  THEN Append(applied, c) ELSE applied
    /\ updates' = [updates EXCEPT ![c].state = "served", ![c].resp = resp]
    /\ UNCHANGED <<nextId, now, last, requests, deleted, cleared, createdIds>>
    /\ UNCHANGED uiVars

\* updateMemo of client c, from the response on: throw the error, throw
\* for missing data, or return the normalized row.
updateMemoReceive(c) ==
  LET u == updates[c] IN
  /\ u.state = "served"
  /\ IF u.resp.error # NoError
     THEN /\ updates' = [updates EXCEPT ![c].state = "done",
                                         ![c].outcome = "threw"]
          /\ UNCHANGED now
     ELSE IF u.resp.data = Null
     THEN /\ updates' = [updates EXCEPT ![c].state = "done",
                                         ![c].outcome = "threw"]
          /\ UNCHANGED now
     ELSE \E k \in 0..ClockReads(u.resp.data, 1) :
            /\ updates' = [updates EXCEPT
                             ![c].state = "done",
                             ![c].outcome = "returned",
                             ![c].ret = NormalizeAll(u.resp.data, k)]
            /\ now' = ClockRead(k, ClockReads(u.resp.data, 1))
  /\ UNCHANGED <<table, nextId, last, requests, deleted, cleared, createdIds>>
  /\ UNCHANGED <<applied, uiVars>>

NextUpdates ==
  \/ \E c \in Clients : updateMemoSend(c)
  \/ \E c \in Clients : updateMemoServe(c)
  \/ \E c \in Clients : updateMemoReceive(c)

SpecUpdates == Init /\ [][NextUpdates]_vars

\* ------------------------------------------------ Home, MemoDetailViewer
\* The memos Home can show, named by their ids.
Memos == Ids

PendingCall(call, id) == [call |-> call, id |-> id]

\* onClick={() => setIsFormOpen(true)}
openNewMemoForm(h) == [h EXCEPT !.isFormOpen = TRUE]

\* setEditingMemo(memo); setIsFormOpen(true)
handleEditMemo(h, memo) ==
  [h EXCEPT !.editingMemo = Some(memo), !.isFormOpen = TRUE]

\* setIsFormOpen(false); setEditingMemo(null)
handleCloseForm(h) == [h EXCEPT !.isFormOpen = FALSE, !.editingMemo = Null]

\* setViewingMemo(memo); setIsDetailViewerOpen(true)
handleViewMemo(h, memo) ==
  [h EXCEPT !.viewingMemo = Some(memo), !.isDetailViewerOpen = TRUE]

\* setIsDetailViewerOpen(false); setViewingMemo(null)
handleCloseDetailViewer(h) ==
  [h EXCEPT !.isDetailViewerOpen = FALSE, !.viewingMemo = Null]

\* setEditingMemo(memo); setIsFormOpen(true)
handleEditFromViewer(h, memo) ==
  [h EXCEPT !.editingMemo = Some(memo), !.isFormOpen = TRUE]

\* handleEdit of the viewer: onEdit(memo); onClose()
handleEdit(h, memo) == handleCloseDetailViewer(handleEditFromViewer(h, memo))

\* What follows the await when the promise resolved: setIsFormOpen(false)
\* in handleCreateMemo; setEditingMemo(null), setIsFormOpen(false) in
\* handleUpdateMemo; onClose() in handleDelete.
Resolved(h, call) ==
  IF call = "createMemo" THEN [h EXCEPT !.isFormOpen = FALSE]
  ELSE IF call = "updateMemo"
  THEN [h EXCEPT !.editingMemo = Null, !.isFormOpen = FALSE]
  ELSE handleCloseDetailViewer(h)

\* Variant of the catch blocks in which a failed write closes the form.
RejectedClosingForm(h, call) ==
  IF call \in {"createMemo", "updateMemo"}
  THEN [h EXCEPT !.isFormOpen = FALSE, !.editingMemo = Null]
  ELSE h

\* Variant of the catch blocks in which a failed delete closes the viewer.
RejectedClosingViewer(h, call) ==
  IF call = "deleteMemo" THEN handleCloseDetailViewer(h) ELSE h

\* The catch blocks: console.error and alert; no state is set.
Rejected(h, call) == h

\* Variant of the effect's cleanup that leaves the listener registered.
CleanupKeepingListener(d, handler) == [d EXCEPT !.overflow = "unset"]

\* The effect's cleanup: removeEventListener('keydown', handleEscapeKey);
\* document.body.style.overflow = 'unset'.
Cleanup(d, handler) ==
  [listeners |-> d.listeners \ {handler}, overflow |-> "unset"]

\* A handleEscapeKey closure that is not registered on the document.
FreshHandler(d) ==
  CHOOSE handler \in 1..(Cardinality(d.listeners) + 1) :
    handler \notin d.listeners

\* The effect's body: if (isOpen) { addEventListener('keydown',
\* handleEscapeKey); document.body.style.overflow = 'hidden' }.
Setup(d, isOpen) ==
  IF isOpen
  THEN [listeners |-> d.listeners \cup {FreshHandler(d)}, overflow |-> "hidden"]
  ELSE d

\* The handler the effect's body registered; 0 when it registered none.
SetupHandler(d, isOpen) == IF isOpen THEN FreshHandler(d) ELSE 0

\* Home renders with state h2. A render after a state change passes a new
\* handleCloseDetailViewer as onClose, so the effect's dependencies
\* [isOpen, onClose] changed: the previous cleanup runs, then the body.
\* Setting a state to the value it has renders nothing.
Commit(h2) ==
  /\ home' = h2
  /\ IF h2 # home
     THEN /\ doc' = Setup(Cleanup(doc, effect), h2.isDetailViewerOpen)
          /\ effect' = SetupHandler(Cleanup(doc, effect), h2.isDetailViewerOpen)
     ELSE UNCHANGED <<doc, effect>>

\* The viewer renders its content: if (!isOpen || !memo) return null.
ViewerShown == home.isDetailViewerOpen /\ home.viewingMemo # Null

NoModal == ~home.isFormOpen /\ ~home.isDetailViewerOpen

ClickNewMemo ==
  /\ mounted /\ NoModal
  /\ Commit(openNewMemoForm(home))
  /\ event' = Event("newMemo", "")
  /\ UNCHANGED <<pending, mounted, repoVars, concVars>>

ClickEditMemo ==
  \E memo \in Memos :
    /\ mounted /\ NoModal
    /\ Commit(handleEditMemo(home, memo))
    /\ event' = Event("editMemo", "")
    /\ UNCHANGED <<pending, mounted, repoVars, concVars>>

ClickViewMemo ==
  \E memo \in Memos :
    /\ mounted /\ NoModal
    /\ Commit(handleViewMemo(home, memo))
    /\ event' = Event("viewMemo", "")
    /\ UNCHANGED <<pending, mounted, repoVars, concVars>>

CloseForm ==
  /\ mounted /\ home.isFormOpen
  /\ Commit(handleCloseForm(home))
  /\ event' = Event("closeForm", "")
  /\ UNCHANGED <<pending, mounted, repoVars, concVars>>

\* onSubmit={editingMemo ? handleUpdateMemo : handleCreateMemo}, up to the
\* await: createMemo(formData), or updateMemo(editingMemo.id, formData)
\* if (editingMemo).
SubmitForm ==
  /\ mounted /\ home.isFormOpen
  /\ Len(pending) < MaxPending
  /\ IF home.editingMemo # Null
     THEN /\ pending' = Append(pending, PendingCall("updateMemo", home.editingMemo[1]))
          /\ event' = Event("submit", "updateMemo")
     ELSE /\ pending' = Append(pending, PendingCall("createMemo", ""))
          /\ event' = Event("submit", "createMemo")
  /\ UNCHANGED <<home, doc, effect, mounted, repoVars, concVars>>

\* handleBackgroundClick: onClose()
CloseViewer ==
  /\ mounted /\ ViewerShown
  /\ Commit(handleCloseDetailViewer(home))
  /\ event' = Event("closeViewer", "")
  /\ UNCHANGED <<pending, mounted, repoVars, concVars>>

\* keydown with key 'Escape': every registered handleEscapeKey calls onClose.
PressEscape ==
  /\ mounted /\ doc.listeners # {}
  /\ Commit(handleCloseDetailViewer(home))
  /\ event' = Event("escape", "")
  /\ UNCHANGED <<pending, mounted, repoVars, concVars>>

ClickEditInViewer ==
  /\ mounted /\ ViewerShown
  /\ Commit(handleEdit(home, home.viewingMemo[1]))
  /\ event' = Event("editFromViewer", "")
  /\ UNCHANGED <<pending, mounted, repoVars, concVars>>

\* handleDelete up to the await: if (window.confirm(...)) onDelete(memo.id)
ClickDeleteInViewer ==
  \E confirm \in BOOLEAN :
    /\ mounted /\ ViewerShown
    /\ IF confirm
       THEN /\ Len(pending) < MaxPending
            /\ pending' = Append(pending, PendingCall("deleteMemo", home.viewingMemo[1]))
            /\ event' = Event("deleteConfirmed", "deleteMemo")
       ELSE /\ pending' = pending
            /\ event' = Event("deleteCancelled", "")
    /\ UNCHANGED <<home, doc, effect, mounted, repoVars, concVars>>

Without(seq, i) == SubSeq(seq, 1, i - 1) \o SubSeq(seq, i + 1, Len(seq))

\* A pending promise resolves and its handler continues after the await.
\* State set after the unmount is dropped.
PromiseResolves ==
  \E i \in 1..Len(pending) :
    /\ pending' = Without(pending, i)
    /\ event' = Event("resolved", pending[i].call)
    /\ IF mounted
       THEN Commit(Resolved(home, pending[i].call))
       ELSE UNCHANGED <<home, doc, effect>>
    /\ UNCHANGED <<mounted, repoVars, concVars>>

\* A pending promise rejects and its handler continues in the catch block.
PromiseRejects ==
  \E i \in 1..Len(pending) :
    /\ pending' = Without(pending, i)
    /\ event' = Event("rejected", pending[i].call)
    /\ IF mounted
       THEN Commit(Rejected(home, pending[i].call))
       ELSE UNCHANGED <<home, doc, effect>>
    /\ UNCHANGED <<mounted, repoVars, concVars>>

\* The viewer renders again with the state unchanged; its onClose prop is
\* a new function (onCloseChanged) or the same one, and the effect runs
\* again only when a dependency changed.
Rerender ==
  \E onCloseChanged \in BOOLEAN :
    /\ mounted
    /\ IF onCloseChanged
       THEN /\ doc' = Setup(Cleanup(doc, effect), home.isDetailViewerOpen)
            /\ effect' = SetupHandler(Cleanup(doc, effect), home.isDetailViewerOpen)
       ELSE UNCHANGED <<doc, effect>>
    /\ event' = Event("rerender", "")
    /\ UNCHANGED <<home, pending, mounted, repoVars, concVars>>

\* The viewer unmounts: the last cleanup runs.
Unmount ==
  /\ mounted
  /\ mounted' = FALSE
  /\ doc' = Cleanup(doc, effect)
  /\ effect' = 0
  /\ event' = Event("unmount", "")
  /\ UNCHANGED <<home, pending, repoVars, concVars>>

NextUI ==
  \/ ClickNewMemo
  \/ ClickEditMemo
  \/ ClickViewMemo
  \/ CloseForm
  \/ SubmitForm
  \/ CloseViewer
  \/ PressEscape
  \/ ClickEditInViewer
  \/ ClickDeleteInViewer
  \/ PromiseResolves
  \/ PromiseRejects
  \/ Rerender
  \/ Unmount

SpecUI == Init /\ [][NextUI]_vars

\* ------------------------------------------------------------- properties
IdsOf(memos) == [i \in 1..Len(memos) |-> memos[i].id]

Returned(op) == last.op = op /\ last.outcome = "returned"

\* q occurs in s as a substring, ignoring case.
ContainsIgnoringCase(s, q) == Includes(ToLowerCase(s), ToLowerCase(q))

\* The rows the title/content query of searchMemos(query) selects.
TitleContentRows(query) ==
  OrEmpty(StoreSelectOr(table, OrFilterString(SearchTerm(query))).data)

\* The ids of a sequence of rows in order of first occurrence.
RECURSIVE FirstOccurrenceIds(_, _)
FirstOccurrenceIds(rows, seen) ==
  IF rows = <<>> THEN <<>>
  ELSE IF Head(rows).id \in seen THEN FirstOccurrenceIds(Tail(rows), seen)
  ELSE <<Head(rows).id>> \o FirstOccurrenceIds(Tail(rows), seen \cup {Head(rows).id})

\* C1: once deleteMemo(id) has returned and no addMemo was called since, a
\* getMemoById(id) that the store answers returns null and does not throw.
C1_DeleteThenGetIsNull ==
  (last.op = "getMemoById" /\ last.id \in deleted /\ last.fault = NoFault)
    => (last.outcome = "returned" /\ last.ret = <<>>)

C1_Witness ==
  /\ Returned("getMemoById")
  /\ last.id \in deleted
  /\ last.id \in createdIds
  /\ last.fault = NoFault
  /\ last.ret = <<>>

\* C2: the sequence searchMemos(q) returns holds no id twice, and its ids
\* are, in order of first occurrence, the ids of the title/content rows
\* followed by the tag-filtered rows.
C2_SearchHasNoDuplicates ==
  Returned("searchMemos") =>
    LET data == TitleContentRows(last.query)
        filteredData == TagFilter(Some(data), last.query)
    IN /\ \A i, j \in 1..Len(last.ret) : i # j => last.ret[i].id # last.ret[j].id
       /\ IdsOf(last.ret) = FirstOccurrenceIds(data \o filteredData, {})

C2_Witness ==
  /\ Returned("searchMemos")
  /\ Len(last.ret) >= 2
  /\ TagFilter(Some(TitleContentRows(last.query)), last.query) # <<>>

\* C3: every stored memo whose title or content contains q, ignoring case,
\* is in the result of searchMemos(q) whenever the store is reachable.
C3_SearchFindsEverySubstringMatch ==
  (last.op = "searchMemos" /\ last.fault = NoFault) =>
    \A i \in 1..Len(table) :
      (\/ ContainsIgnoringCase(table[i].title, last.query)
       \/ ContainsIgnoringCase(table[i].content, last.query))
        => /\ last.outcome = "returned"
           /\ \E n \in 1..Len(last.ret) : last.ret[n].id = table[i].id

C5_ListIsSortedByCreatedAt ==
  Returned("getMemos") =>
    \A i, j \in 1..Len(last.ret) :
      i < j => last.ret[i].created_at >= last.ret[j].created_at

\* C6: in a step that records a new call, a successful addMemo(formData) returns a memo with the title,
\* content, category and tags of formData, a non-empty id that no row of
\* the table had, and created_at equal to updated_at; the table afterwards
\* is the table before plus one row, which equals the returned memo.
C6_AddReturnsTheInsertedMemo ==
  [][(last' # last /\ last'.op = "addMemo" /\ last'.outcome = "returned") =>
       LET m == last'.ret[1]
           f == last'.formData
       IN /\ Len(last'.ret) = 1
          /\ m.title = f.title
          /\ m.content = f.content
          /\ m.category = f.category
          /\ m.tags = f.tags
          /\ m.id # ""
          /\ m.id \notin RowIds(table)
          /\ m.created_at = m.updated_at
          /\ table' = Append(table,
               [id |-> m.id, title |-> m.title, content |-> m.content,
                category |-> m.category, tags |-> Some(m.tags),
                created_at |-> Some(m.created_at),
                updated_at |-> Some(m.updated_at)])]_vars

C6_Witness ==
  /\ Returned("addMemo")
  /\ Len(last.formData.tags) > 0
  /\ Len(table) >= 2
  /\ last.ret[1].id = table[Len(table)].id

\* C7: in a step that records a new call, updateMemo(id, formData2) of a memo that addMemo created and that
\* is still stored returns a memo with that id, with the title, content,
\* category and tags of formData2, with created_at as stored before and
\* updated_at >= created_at; every other row of the table is unchanged.
C7_UpdateReturnsTheUpdatedMemo ==
  [][(/\ last' # last
      /\ last'.op = "updateMemo"
      /\ last'.outcome = "returned"
      /\ last'.id \in createdIds) =>
       LET m == last'.ret[1]
           f == last'.formData
       IN /\ Len(last'.ret) = 1
          /\ m.id = last'.id
          /\ m.title = f.title
          /\ m.content = f.content
          /\ m.category = f.category
          /\ m.tags = f.tags
          /\ m.updated_at >= m.created_at
          /\ Len(table') = Len(table)
          /\ \A i \in 1..Len(table) :
               IF table[i].id = m.id
               THEN /\ table'[i].id = m.id
                    /\ table[i].created_at = Some(m.created_at)
                    /\ table'[i].created_at = table[i].created_at
               ELSE table'[i] = table[i]]_vars

C7_Witness ==
  /\ Returned("updateMemo")
  /\ last.id \in createdIds
  /\ Len(table) >= 2
  /\ last.ret[1].updated_at > last.ret[1].created_at
  /\ Len(last.formData.tags) > 0

\* C8: every row of the table has a non-empty id, so neq('id', '') selects
\* every row; once clearAllMemos has returned and no addMemo was called
\* since, getMemos returns the empty sequence.
C8_ClearThenListIsEmpty ==
  /\ \A i \in 1..Len(table) : table[i].id # ""
  /\ (cleared /\ Returned("getMemos")) => last.ret = <<>>

C8_Witness ==
  /\ cleared
  /\ Returned("getMemos")
  /\ createdIds # {}
  /\ last.ret = <<>>

\* C9: getMemosByCategory(c) returns exactly the stored memos whose
\* category is c, in the relative order in which getMemos lists them.
C9_CategoryListIsFilteredList ==
  Returned("getMemosByCategory") =>
    LET listed == OrEmpty(StoreSelectAll(table).data) IN
    /\ {last.ret[n].id : n \in 1..Len(last.ret)}
         = {table[i].id : i \in {j \in 1..Len(table) :
                                   table[j].category = last.category}}
    /\ \A n \in 1..Len(last.ret) : last.ret[n].category = last.category
    /\ \A a, b \in 1..Len(last.ret) :
         a < b =>
           \E x, y \in 1..Len(listed) :
             /\ x < y
             /\ listed[x].id = last.ret[a].id
             /\ listed[y].id = last.ret[b].id

C9_Witness ==
  /\ Returned("getMemosByCategory")
  /\ Len(last.ret) = 2
  /\ last.ret[1].id # table[1].id
  /\ last.ret[1].created_at > last.ret[2].created_at

\* C10: getMemoById(id) returns null without throwing when no row has the
\* id, returns the normalized row when one row has it, and throws the
\* store's error for every other failure, never returning null for it.
C10_GetByIdOutcomes ==
  last.op = "getMemoById" =>
    /\ (last.fault = NoFault /\ last.id \notin RowIds(table))
         => (last.outcome = "returned" /\ last.ret = <<>>)
    /\ (last.fault = NoFault /\ last.id \in RowIds(table))
         => /\ last.outcome = "returned"
            /\ Len(last.ret) = 1
            /\ \E i \in 1..Len(table) :
                 /\ table[i].id = last.id
                 /\ last.ret[1].id = last.id
                 /\ last.ret[1].title = table[i].title
                 /\ last.ret[1].content = table[i].content
                 /\ last.ret[1].category = table[i].category
                 /\ last.ret[1].tags = OrEmpty(table[i].tags)
                 /\ table[i].created_at # Null
                      => last.ret[1].created_at = table[i].created_at[1]
                 /\ table[i].updated_at # Null
                      => last.ret[1].updated_at = table[i].updated_at[1]
    /\ last.fault # NoFault
         => (last.outcome = "threw" /\ last.error = StoreError(last.fault))

C10_Witness ==
  /\ last.op = "getMemoById"
  /\ last.fault # NoFault
  /\ last.outcome = "threw"
  /\ last.id \notin RowIds(table)

\* C11: in a step that records a new call, updateMemo(id, formData) with an
\* id that no row has throws, returns no memo and leaves the table as it was.
C11_UpdateOfMissingIdFails ==
  [][(/\ last' # last
      /\ last'.op = "updateMemo"
      /\ last'.id \notin RowIds(table)) =>
       /\ last'.outcome = "threw"
       /\ last'.ret = <<>>
       /\ table' = table]_vars

C11_Witness ==
  /\ last.op = "updateMemo"
  /\ last.fault = NoFault
  /\ last.outcome = "threw"
  /\ last.error = StoreError("PGRST116")
  /\ table # <<>>
  /\ last.id \notin RowIds(table)

\* C12: in a step that records a new call, a deleteMemo(id) that the store
\* answers returns successfully, removes the row with that id and no other
\* row, and leaves the table unchanged when no row has the id; a second
\* deleteMemo(id) would change nothing more.
C12_DeleteIsIdempotent ==
  [][(/\ last' # last
      /\ last'.op = "deleteMemo"
      /\ last'.fault = NoFault) =>
       LET id == last'.id IN
       /\ last'.outcome = "returned"
       /\ table' = SelectSeq(table, LAMBDA r : r.id # id)
       /\ id \notin RowIds(table) => table' = table
       /\ id \notin RowIds(table')
       /\ DeletedById(table', id) = table']_vars

C12_Witness ==
  /\ Returned("deleteMemo")
  /\ last.id \in createdIds
  /\ last.id \notin RowIds(table)
  /\ table # <<>>

\* C13: every memo a row-returning operation returns carries the tags of
\* its stored row, or the empty sequence when the stored tags are null, and
\* the stored timestamps, or a clock reading when they are null.
C13_ReturnedMemosAreNormalized ==
  (/\ last.outcome = "returned"
   /\ last.op \in {"getMemos", "addMemo", "updateMemo", "getMemoById",
                   "getMemosByCategory", "searchMemos"}) =>
    \A n \in 1..Len(last.ret) :
      \E i \in 1..Len(table) :
        /\ table[i].id = last.ret[n].id
        /\ last.ret[n].tags =
             (IF table[i].tags = Null THEN <<>> ELSE table[i].tags[1])
        /\ IF table[i].created_at = Null
           THEN last.ret[n].created_at \in 0..MaxTime
           ELSE last.ret[n].created_at = table[i].created_at[1]
        /\ IF table[i].updated_at = Null
           THEN last.ret[n].updated_at \in 0..MaxTime
           ELSE last.ret[n].updated_at = table[i].updated_at[1]

C13_Witness ==
  /\ Returned("searchMemos")
  /\ \E n \in 1..Len(last.ret), i \in 1..Len(table) :
       /\ table[i].id = last.ret[n].id
       /\ table[i].tags = Null
       /\ table[i].created_at = Null
  /\ \E n \in 1..Len(last.ret), i \in 1..Len(table) :
       /\ table[i].id = last.ret[n].id
       /\ table[i].tags # Null
       /\ table[i].tags[1] # <<>>

\* C14: when the store reports an error for the request of an operation,
\* the operation returns nothing and throws the error the store reported,
\* unchanged, after that one request; this covers the failures the store
\* reports for any request, the filter it cannot parse in searchMemos and
\* the missing row in updateMemo. The missing row in getMemoById is the
\* one error that is not thrown.
C14_StoreErrorIsThrownUnchanged ==
  /\ (last # NoCall /\ last.fault # NoFault) =>
       /\ last.outcome = "threw"
       /\ last.error = StoreError(last.fault)
       /\ last.ret = <<>>
       /\ requests = 1
  /\ (/\ last.op = "searchMemos"
      /\ last.fault = NoFault
      /\ StoreSelectOr(table, OrFilterString(SearchTerm(last.query))).error # NoError) =>
       /\ last.outcome = "threw"
       /\ last.error =
            StoreSelectOr(table, OrFilterString(SearchTerm(last.query))).error
       /\ last.ret = <<>>
       /\ requests = 1
  /\ (/\ last.op = "updateMemo"
      /\ last.fault = NoFault
      /\ last.id \notin RowIds(table)) =>
       /\ last.outcome = "threw"
       /\ last.error = Single(<<>>).error
       /\ last.ret = <<>>
       /\ requests = 1
  /\ (/\ last.op = "getMemoById"
      /\ last.fault = NoFault
      /\ last.id \notin RowIds(table)) =>
       /\ last.outcome = "returned"
       /\ last.ret = <<>>

C14_Witness ==
  /\ last.op = "deleteMemo"
  /\ last.id \in RowIds(table)
  /\ last.fault = "42501"
  /\ last.outcome = "threw"
  /\ last.error = StoreError("42501")
  /\ requests = 1

C15_LastAppliedUpdateWins ==
  \A id \in RowIds(table) :
    LET on == SelectSeq(applied, LAMBDA c : updates[c].id = id) IN
    /\ on # <<>> =>
         LET d == UpdateData(updates[on[Len(on)]].formData) IN
         \E i \in 1..Len(table) :
           /\ table[i].id = id
           /\ table[i].title = d.title
           /\ table[i].content = d.content
           /\ table[i].category = d.category
           /\ table[i].tags = Some(d.tags)
    /\ \A c \in Clients :
         (/\ updates[c].state = "done"
          /\ updates[c].id = id
          /\ updates[c].resp.error = NoError) =>
           /\ updates[c].outcome = "returned"
           /\ Len(updates[c].ret) = 1
           /\ updates[c].ret[1].id = id

C15_Witness ==
  /\ Len(applied) = 2
  /\ applied[1] # applied[2]
  /\ updates[applied[1]].id = updates[applied[2]].id
  /\ updates[applied[1]].formData # updates[applied[2]].formData
  /\ \A c \in {applied[1], applied[2]} :
       updates[c].state = "done" /\ updates[c].outcome = "returned"
  /\ updates[applied[1]].ret[1].title # updates[applied[2]].ret[1].title

\* C17: in Home the form closes only in a step in which the user closed it
\* or a createMemo / updateMemo promise resolved; the submit itself leaves
\* the form as it is while the call is pending, and the rejection of a
\* createMemo / updateMemo promise leaves isFormOpen and editingMemo as
\* they were.
C17_FormClosesOnlyAfterSuccess ==
  [][/\ (home.isFormOpen /\ ~home'.isFormOpen) =>
          \/ event' = Event("closeForm", "")
          \/ /\ event' \in {Event("resolved", "createMemo"),
                            Event("resolved", "updateMemo")}
             /\ Len(pending') < Len(pending)
     /\ (event'.kind = "submit" /\ pending' # pending) =>
          /\ home' = home
          /\ Len(pending') = Len(pending) + 1
          /\ pending'[Len(pending')].call = event'.call
     /\ (/\ event'.kind = "rejected"
         /\ event'.call \in {"createMemo", "updateMemo"}
         /\ Len(pending') < Len(pending)) =>
          /\ home'.isFormOpen = home.isFormOpen
          /\ home'.editingMemo = home.editingMemo]_vars

C17_Witness ==
  /\ event = Event("rejected", "updateMemo")
  /\ mounted
  /\ home.isFormOpen
  /\ home.editingMemo # Null

\* C18: while the viewer is mounted, the document holds exactly one Escape
\* listener, the one the last effect run registered, when isOpen is true
\* and none when it is false, and body.style.overflow is 'hidden' exactly
\* when isOpen is true; after the unmount no listener is left and the
\* overflow is not 'hidden'.
C18_ListenerAndScrollLockFollowIsOpen ==
  /\ mounted =>
       /\ doc.listeners = (IF home.isDetailViewerOpen THEN {effect} ELSE {})
       /\ Cardinality(doc.listeners) = (IF home.isDetailViewerOpen THEN 1 ELSE 0)
       /\ (doc.overflow = "hidden") <=> home.isDetailViewerOpen
  /\ ~mounted =>
       /\ doc.listeners = {}
       /\ doc.overflow # "hidden"

C18_Witness ==
  /\ event = Event("rerender", "")
  /\ mounted
  /\ home.isDetailViewerOpen
  /\ doc = [listeners |-> {effect}, overflow |-> "hidden"]
  /\ effect # 0

\* C19: in every reachable state of Home, editingMemo is non-null only
\* while the form is open.
C19_EditingMemoImpliesFormOpen ==
  home.editingMemo # Null => home.isFormOpen

\* C20: the viewer closes only in a step in which the user closed it,
\* pressed Escape, chose edit, or a deleteMemo promise resolved; a
\* confirmed delete calls onDelete with the id of the memo shown and
\* leaves the viewer as it is while the call is pending; a cancelled
\* confirmation calls nothing; the rejection of the deleteMemo promise
\* leaves the viewer open on the same memo.
C20_ViewerClosesOnlyAfterDelete ==
  [][/\ (home.isDetailViewerOpen /\ ~home'.isDetailViewerOpen) =>
          \/ event' \in {Event("closeViewer", ""), Event("escape", ""),
                         Event("editFromViewer", "")}
          \/ /\ event' = Event("resolved", "deleteMemo")
             /\ Len(pending') < Len(pending)
     /\ event'.kind = "deleteConfirmed" =>
          /\ home' = home
          /\ pending' = Append(pending, PendingCall("deleteMemo", home.viewingMemo[1]))
     /\ event'.kind = "deleteCancelled" =>
          /\ home' = home
          /\ pending' = pending
     /\ (/\ event' = Event("rejected", "deleteMemo")
         /\ Len(pending') < Len(pending)) =>
          /\ home'.isDetailViewerOpen = home.isDetailViewerOpen
          /\ home'.viewingMemo = home.viewingMemo]_vars

C20_Witness ==
  /\ event = Event("rejected", "deleteMemo")
  /\ mounted
  /\ home.isDetailViewerOpen
  /\ home.viewingMemo # Null
  /\ pending = <<>>

====
